---------------------------- MODULE Spec2Model ----------------------------
(***************************************************************************)
(* Call-centre forecasting service (backend/server.py).                    *)
(*                                                                         *)
(* State: the two MongoDB collections the handlers use (db.call_data and   *)
(* db.forecasts) and the response of the handler that ran last.            *)
(* Reals are exact rationals [n |-> numerator, d |-> denominator > 0];     *)
(* the floating-point rounding of the Python code is not modelled.         *)
(* Dates are stored as ISO strings "YYYY-MM-DD", modelled as <<y, m, d>>   *)
(* (their lexicographic order is the order of the strings); a parsed       *)
(* Timestamp is the day number counted from 1 = 1 January of BaseYear.     *)
(* The fitted statistical models (ARIMA, Holt-Winters, random forest,      *)
(* linear regression) are library code: a fit either raises or yields one  *)
(* of a few forecast paths / predictors, chosen nondeterministically.      *)
(***************************************************************************)
EXTENDS Integers, Sequences, FiniteSets, TLC

VARIABLES call_data, forecasts, resp

vars == <<call_data, forecasts, resp>>

-----------------------------------------------------------------------------
(* Bounds of the exploration *)

\* longest history a forecast or an accuracy analysis is run on
MaxHistory == 19
\* longest forecast horizon requested
MaxHorizon == 8
\* forecasts persisted in one behaviour
MaxForecasts == 1
\* single records posted besides the bulk upload
MaxSingles == 4

-----------------------------------------------------------------------------
(* Program constants *)

\* to_list(1000) in get_historical_data
FetchLimit == 1000
\* "Minimum 7 data points required for forecasting"
MinForecastHistory == 7
\* "if len(df) < 14" in get_accuracy_analysis; the test window is 7
MinAccuracyHistory == 14
TestWindow == 7
\* base_ratio in calculate_staffing_requirement
base_ratio == 8
\* range(1, min(8, len(df))): lags 1 .. min(8, n) - 1
LagRangeEnd == 8
\* "if len(df_clean) < 5"
MinCleanRows == 5
\* seasonal_decompose(..., period=7) and "if len(df) < 14"
Period == 7
MinDecomposeHistory == 14
\* "if len(trend_clean) < 6"
MinTrendPoints == 6

-----------------------------------------------------------------------------
(* Generic helpers *)

Range(s) == {s[i] : i \in DOMAIN s}

Max2(a, b) == IF a >= b THEN a ELSE b

Min2(a, b) == IF a <= b THEN a ELSE b

Abs(a) == IF a >= 0 THEN a ELSE -a

RECURSIVE SumSeq(_)
SumSeq(s) == IF s = <<>> THEN 0 ELSE Head(s) + SumSeq(Tail(s))

\* s[:k] of Python for k >= 0
Take(s, k) == SubSeq(s, 1, Min2(k, Len(s)))

IsPrefix(p, s) == Len(p) <= Len(s) /\ SubSeq(s, 1, Len(p)) = p

-----------------------------------------------------------------------------
(* Rationals: the float values of the code, kept exact *)

Rat(n, d) == [n |-> n, d |-> d]

RatInt(k) == Rat(k, 1)

RECURSIVE Gcd(_, _)
Gcd(a, b) == IF b = 0 THEN a ELSE Gcd(b, a % b)

\* the one value of n/d, d > 0: the fraction in lowest terms
Reduced(n, d) ==
    LET g == Gcd(IF n >= 0 THEN n ELSE -n, d)
    IN  Rat(n \div g, d \div g)

RatLeq(a, b) == a.n * b.d <= b.n * a.d

RatLess(a, b) == a.n * b.d < b.n * a.d

RatEq(a, b) == a.n * b.d = b.n * a.d

RatAdd(a, b) == IF a.d = b.d THEN Rat(a.n + b.n, a.d) ELSE Rat(a.n * b.d + b.n * a.d, a.d * b.d)

RatSub(a, b) == IF a.d = b.d THEN Rat(a.n - b.n, a.d) ELSE Rat(a.n * b.d - b.n * a.d, a.d * b.d)

\* int(x) of Python: truncation toward zero of the rational n/d, d > 0
TruncDiv(n, d) == IF n >= 0 THEN n \div d ELSE -((-n) \div d)

-----------------------------------------------------------------------------
(* Calendar: pd.to_datetime on "YYYY-MM-DD" and strftime('%Y-%m-%d') *)

\* first day of the uploaded series
FirstDate == <<2024, 12, 12>>

\* day numbers count from 1 January of this year
BaseYear == FirstDate[1]

IsLeap(y) == (y % 4 = 0 /\ y % 100 # 0) \/ y % 400 = 0

DaysInYear(y) == IF IsLeap(y) THEN 366 ELSE 365

DaysInMonth(y, m) ==
    IF m = 2 THEN (IF IsLeap(y) THEN 29 ELSE 28)
    ELSE IF m \in {4, 6, 9, 11} THEN 30 ELSE 31

RECURSIVE DaysBeforeYear(_)
DaysBeforeYear(y) == IF y <= BaseYear THEN 0 ELSE DaysBeforeYear(y - 1) + DaysInYear(y - 1)

RECURSIVE DaysBeforeMonth(_, _)
DaysBeforeMonth(y, m) == IF m <= 1 THEN 0 ELSE DaysBeforeMonth(y, m - 1) + DaysInMonth(y, m - 1)

\* pd.to_datetime: ISO string -> day number
to_datetime(s) == DaysBeforeYear(s[1]) + DaysBeforeMonth(s[1], s[2]) + s[3]

RECURSIVE SplitYear(_, _)
SplitYear(n, y) == IF n <= DaysInYear(y) THEN <<y, n>> ELSE SplitYear(n - DaysInYear(y), y + 1)

RECURSIVE SplitMonth(_, _, _)
SplitMonth(n, y, m) == IF n <= DaysInMonth(y, m) THEN <<y, m, n>> ELSE SplitMonth(n - DaysInMonth(y, m), y, m + 1)

\* Timestamp.strftime('%Y-%m-%d'): day number -> ISO string
strftime(n) == LET yn == SplitYear(n, BaseYear) IN SplitMonth(yn[2], yn[1], 1)

\* order of the stored strings (MongoDB sorts the "date" field as a string)
StrLess(a, b) ==
    \/ a[1] < b[1]
    \/ a[1] = b[1] /\ a[2] < b[2]
    \/ a[1] = b[1] /\ a[2] = b[2] /\ a[3] < b[3]

\* .dt.dayofweek (Monday = 0); 1 January 2024 is a Monday
dayofweek(n) == (n - 1) % 7


-----------------------------------------------------------------------------
(* Inputs: the records clients post *)

\* CallDataCreate, as far as the forecasting core reads it (id, timestamp
\* and service_level are stored but never read by a strategy)
CallRecord(date, calls, staffing) ==
    [date |-> date, calls_volume |-> calls, staffing_level |-> staffing]

Profiles == {"up", "down"}

\* daily volumes: "up" grows by exactly one call a day, "down" falls by ten
\* a day to zero with a weekly peak
Volume(profile, i) ==
    IF profile = "up" THEN 100 + i
    ELSE Max2(0, 150 - 10 * i) + (IF i % 7 = 0 THEN 30 ELSE 0)

HistoryRecord(profile, i) ==
    CallRecord(strftime(to_datetime(FirstDate) + i - 1), Volume(profile, i), 10 + (i % 3))

\* a bulk upload of n consecutive days
CsvFile(profile, n) == [i \in 1 .. n |-> HistoryRecord(profile, i)]

Reverse(s) == [i \in 1 .. Len(s) |-> s[Len(s) + 1 - i]]

\* the same days posted newest first, then the first day posted again
\* (dates need not be unique and arrive in any order)
Reposted(profile, n) ==
    IF n < 2 THEN CsvFile(profile, n)
    ELSE Append(Reverse(CsvFile(profile, n - 1)), HistoryRecord(profile, 1))

\* contents of db.call_data the handlers are run on, by number of records
Histories(lens) ==
    {CsvFile(p, n) : p \in Profiles, n \in lens}
        \cup {Reposted("down", n) : n \in lens}

\* single posts: one day before every series, one day after every series
SingleRecords ==
    {CallRecord(<<2024, 12, 1>>, 150, 20), CallRecord(<<2025, 3, 1>>, 0, 1)}

\* a CSV of FetchLimit rows, twenty rows a day, in date order
BigFile ==
    [i \in 1 .. FetchLimit |->
        CallRecord(strftime(to_datetime(FirstDate) + ((i - 1) \div 20)),
                   100 + ((i - 1) \div 20), 10)]

-----------------------------------------------------------------------------
(* Historical series access *)

MongoDateOrder(a, b) == StrLess(a.date, b.date)

FrameDateOrder(a, b) == a.date < b.date

\* db.call_data.find().sort("date", 1).to_list(1000)
FindSortedToList(store, limit) == Take(SortSeq(store, MongoDateOrder), limit)

\* one DataFrame row: the date parsed by pd.to_datetime
ParseRow(item) ==
    [date |-> to_datetime(item.date),
     calls_volume |-> item.calls_volume,
     staffing_level |-> item.staffing_level]

\* get_historical_data(): <<>> is the empty DataFrame
get_historical_data(store) ==
    LET data_points == FindSortedToList(store, FetchLimit)
    IN  IF data_points = <<>> THEN <<>>
        ELSE SortSeq([i \in 1 .. Len(data_points) |-> ParseRow(data_points[i])],
                     FrameDateOrder)


-----------------------------------------------------------------------------
(* Errors *)

\* HTTPException(status_code, detail); detail is the message, in pieces
HTTPException(status, detail) == [status_code |-> status, detail |-> detail]

\* str(e) of an HTTPException differs between Starlette builds: older ones
\* define no __str__ (keyword arguments leave e.args empty, so the string is
\* empty), newer ones return "<status_code>: <detail>"
StrImpls == {"args", "status_detail"}

StrOfHTTPException(e, str_impl) ==
    IF str_impl = "args" THEN <<>> ELSE <<"400">> \o e.detail

-----------------------------------------------------------------------------
(* Outcomes of the library fits *)

FitRecord(ok, level, drift, spread, model) ==
    [ok |-> ok, level |-> level, drift |-> drift, spread |-> spread, model |-> model]

\* the library raised (singular fit, no convergence, ...)
FitFailure == FitRecord(FALSE, 0, 0, 0, "none")

\* no library fit is involved
NoFit == FitRecord(TRUE, 0, 0, 0, "none")

\* forecast path of ARIMA / Holt-Winters: level + drift per step, with the
\* spread of the residuals; the path starts below zero: -800, 0, 800, 1600, ...
PathFits == {FitRecord(TRUE, -800, 800, 25, "none")}

\* fitted regressors, as the rule they apply to a feature row
Predictors == {"lag1_plus_1"}

ModelFits == {FitRecord(TRUE, 0, 0, 0, m) : m \in Predictors}

PathMethods == {"arima", "exponential_smoothing"}

MLMethods == {"random_forest", "linear_regression"}

Methods == PathMethods \cup MLMethods \cup {"seasonal_decompose"}

FitsFor(method) ==
    IF method \in PathMethods THEN PathFits \cup {FitFailure}
    ELSE IF method \in MLMethods THEN ModelFits \cup {FitFailure}
    ELSE {NoFit}

\* forecast(steps=forecast_days) of a fitted path model
ForecastPath(fit, forecast_days) ==
    [i \in 1 .. forecast_days |-> RatInt(fit.level + (i - 1) * fit.drift)]

-----------------------------------------------------------------------------
(* Staffing Estimator *)

\* target_service_level=0.8 at the call site
TargetServiceLevel == Rat(4, 5)

\* variant of calculate_staffing_requirement without the max(1, ...)
StaffingWithoutFloor(predicted_calls, target_service_level) ==
    TruncDiv(predicted_calls.n * target_service_level.d,
             predicted_calls.d * base_ratio * target_service_level.n)

\* max(1, int((predicted_calls / base_ratio) * (1 / target_service_level)))
calculate_staffing_requirement(predicted_calls, target_service_level) ==
    Max2(1, TruncDiv(predicted_calls.n * target_service_level.d,
                     predicted_calls.d * base_ratio * target_service_level.n))

-----------------------------------------------------------------------------
(* Strategies.  Each returns [ok |-> TRUE, predictions, ...] or             *)
(* [ok |-> FALSE, error |-> the HTTPException its except clause raises].    *)

\* cause tells the library's exceptions from the strategy's own checks
Raised(error, cause) == [ok |-> FALSE, error |-> error, cause |-> cause]

perform_arima_forecast(df, forecast_days, confidence_level, fit) ==
    IF ~fit.ok
    THEN Raised(HTTPException(400, <<"ARIMA forecasting failed", "library error">>), "fit_failure")
    ELSE LET forecast == ForecastPath(fit, forecast_days)
         IN  [ok |-> TRUE,
              predictions |-> forecast,
              confidence_lower |->
                  [i \in 1 .. forecast_days |-> RatSub(forecast[i], RatInt(i * fit.spread))],
              confidence_upper |->
                  [i \in 1 .. forecast_days |-> RatAdd(forecast[i], RatInt(i * fit.spread))],
              metrics |-> {"aic", "bic"}]

\* z_score = 1.96 if confidence_level == 0.95 else 2.576
ZScore(confidence_level) ==
    IF RatEq(confidence_level, Rat(95, 100)) THEN Rat(196, 100) ELSE Rat(2576, 1000)

\* variant of perform_exponential_smoothing that adds the margin for the
\* lower bound and subtracts it for the upper bound
SmoothingWithBoundsSwapped(df, forecast_days, confidence_level, fit) ==
    IF ~fit.ok
    THEN Raised(HTTPException(400, <<"Exponential smoothing failed", "library error">>), "fit_failure")
    ELSE LET forecast == ForecastPath(fit, forecast_days)
             z_score == ZScore(confidence_level)
             confidence_margin == Rat(z_score.n * fit.spread, z_score.d)
         IN  [ok |-> TRUE,
              predictions |-> forecast,
              confidence_lower |->
                  [i \in 1 .. forecast_days |-> RatAdd(forecast[i], confidence_margin)],
              confidence_upper |->
                  [i \in 1 .. forecast_days |-> RatSub(forecast[i], confidence_margin)],
              seasonal |-> Len(df) > Min2(7, Len(df) \div 2) * 2,
              metrics |-> {"aic"}]

perform_exponential_smoothing(df, forecast_days, confidence_level, fit) ==
    LET seasonal_periods == Min2(7, Len(df) \div 2)
        seasonal == Len(df) > seasonal_periods * 2
    IN  IF ~fit.ok
        THEN Raised(HTTPException(400, <<"Exponential smoothing failed", "library error">>), "fit_failure")
        ELSE LET forecast == ForecastPath(fit, forecast_days)
                 std_residuals == fit.spread
                 z_score == ZScore(confidence_level)
                 confidence_margin == Rat(z_score.n * std_residuals, z_score.d)
             IN  [ok |-> TRUE,
                  predictions |-> forecast,
                  confidence_lower |->
                      [i \in 1 .. forecast_days |-> RatSub(forecast[i], confidence_margin)],
                  confidence_upper |->
                      [i \in 1 .. forecast_days |-> RatAdd(forecast[i], confidence_margin)],
                  seasonal |-> seasonal,
                  metrics |-> {"aic"}]


-----------------------------------------------------------------------------
(* Regression strategies (random forest / linear regression) *)

\* variant of LagCount for a range that includes its end
LagCountInclusive(n) == Min2(LagRangeEnd, n)

\* number of calls_lag_i columns: i in range(1, min(8, len(df)))
LagCount(n) == Min2(LagRangeEnd, n) - 1

\* row t of the frame after feature engineering; a lag that reaches before
\* the first row is NaN, written as the string "NaN"
FeatureRow(df, t) ==
    [day_of_week |-> dayofweek(df[t].date),
     month |-> strftime(df[t].date)[2],
     day_of_month |-> strftime(df[t].date)[3],
     staffing_level |-> df[t].staffing_level,
     calls_volume |-> df[t].calls_volume,
     lags |-> [i \in 1 .. LagCount(Len(df)) |->
                  IF t - i >= 1 THEN df[t - i].calls_volume ELSE "NaN"]]

HasNaN(row) == \E i \in DOMAIN row.lags : row.lags[i] = "NaN"

\* variant of DropNa that keeps every row (the NaN filled, not dropped)
DropNaKeepingAll(df) == [t \in 1 .. Len(df) |-> FeatureRow(df, t)]

\* df.dropna(): the rows without a NaN, in order
DropNa(df) ==
    LET keep == {t \in 1 .. Len(df) : \A i \in 1 .. LagCount(Len(df)) : t - i >= 1}
        first == Len(df) - Cardinality(keep) + 1
    IN  [j \in 1 .. Cardinality(keep) |-> FeatureRow(df, first + j - 1)]

\* model.predict(row) of the fitted regressor
Predict(model, row) ==
    IF model = "lag1_plus_1" THEN row.lags[1] + 1 ELSE row.lags[Len(row.lags)]

\* variant of NextRow that shifts the lags in place, each lag reading the
\* one just overwritten
NextRowInPlace(last_row, pred, lag_count) ==
    [last_row EXCEPT
        !.calls_volume = pred,
        !.lags = [lag \in 1 .. lag_count |-> pred]]

\* the row the next step predicts from: calls_volume and calls_lag_1 are the
\* prediction, calls_lag_k is the previous row's calls_lag_(k-1); the
\* calendar features and staffing_level are copied
NextRow(last_row, pred, lag_count) ==
    [last_row EXCEPT
        !.calls_volume = pred,
        !.lags = [lag \in 1 .. lag_count |->
                     IF lag = 1 THEN pred ELSE last_row.lags[lag - 1]]]

\* the forecast loop: the rows predicted from and the predictions, in order
RECURSIVE ForecastLoop(_, _, _, _)
ForecastLoop(model, last_row, lag_count, steps) ==
    IF steps <= 0 THEN <<>>
    ELSE LET pred == Predict(model, last_row)
         IN  <<[row |-> last_row, pred |-> pred]>>
                 \o ForecastLoop(model, NextRow(last_row, pred, lag_count), lag_count, steps - 1)

perform_ml_forecast(df, forecast_days, method, fit) ==
    LET df_clean == DropNa(df)
        lag_count == LagCount(Len(df))
    IN  IF Len(df_clean) < MinCleanRows
        THEN Raised(HTTPException(400,
                 <<"ML forecasting failed", "Insufficient data for machine learning">>),
                    "insufficient_data")
        ELSE IF ~fit.ok
        THEN Raised(HTTPException(400, <<"ML forecasting failed", "library error">>), "fit_failure")
        ELSE LET steps == ForecastLoop(fit.model, df_clean[Len(df_clean)], lag_count, forecast_days)
             IN  [ok |-> TRUE,
                  predictions |-> [i \in 1 .. Len(steps) |-> RatInt(steps[i].pred)],
                  rows |-> [i \in 1 .. Len(steps) |-> steps[i].row],
                  train_rows |-> Len(df_clean),
                  metrics |-> {"mae", "rmse", "r2_score"}]

-----------------------------------------------------------------------------
(* Decomposition strategy: additive seasonal_decompose with period 7.      *)
(* The trend is the centred 7-day mean (NaN on the first and last three    *)
(* days), the seasonal component the mean detrended value of each weekday  *)
(* position, centred on zero.  Numerators are kept over common             *)
(* denominators: trend * 7, seasonal * 49 * K.                             *)

HalfWindow == Period \div 2

Calls(df) == [t \in 1 .. Len(df) |-> df[t].calls_volume]

\* the value of a sequence expression, evaluated once
Materialize(s) == s \o <<>>

\* decomposition.trend.dropna(), times 7: one value for each of the days
\* HalfWindow+1 .. n-HalfWindow
TrendClean7(x) ==
    Materialize([j \in 1 .. Len(x) - 2 * HalfWindow |->
        SumSeq([k \in 1 .. Period |-> x[j + k - 1]])])

\* trend days that fall on weekday position p (position of day t is (t-1) % 7)
DaysAt(x, p) ==
    {j \in 1 .. Len(x) - 2 * HalfWindow : (j + HalfWindow - 1) % Period = p}

\* sum over the trend days S of the detrended values, times 7
RECURSIVE SumDetrended7(_, _, _)
SumDetrended7(x, trend, S) ==
    IF S = {} THEN 0
    ELSE LET j == CHOOSE k \in S : TRUE
         IN  (Period * x[j + HalfWindow] - trend[j]) + SumDetrended7(x, trend, S \ {j})

\* common multiple of the numbers of days per position (they differ by <= 1)
CountsMultiple(x) ==
    LET c == (Len(x) - 2 * HalfWindow) \div Period IN c * (c + 1)

\* period averages of positions 0 .. 6 (kept as 1 .. 7), times 7 * CountsMultiple
PeriodAverages(x, trend) ==
    Materialize([q \in 1 .. Period |->
        SumDetrended7(x, trend, DaysAt(x, q - 1))
            * (CountsMultiple(x) \div Cardinality(DaysAt(x, q - 1)))])

\* decomposition.seasonal.iloc[-7:].values, times 49 * CountsMultiple: the
\* period averages centred on zero, for the positions of the last 7 days;
\* index 0 .. 6 is kept as 1 .. 7
SeasonalPattern(x, trend) ==
    LET averages == PeriodAverages(x, trend)
        total == SumSeq(averages)
    IN  Materialize([k \in 1 .. Period |->
            Period * averages[((Len(x) - Period + k - 1) % Period) + 1] - total])

\* (trend_clean[-3:].mean() - trend_clean[:3].mean()) / len(trend_clean),
\* times 7 * 3 * len(trend_clean)
TrendSlopeNum(trend_clean) ==
    LET m == Len(trend_clean)
    IN  (trend_clean[m - 2] + trend_clean[m - 1] + trend_clean[m])
            - (trend_clean[1] + trend_clean[2] + trend_clean[3])

\* what the forecast loop reads: numerators and their denominators
Decomposition(x) ==
    LET trend_clean == TrendClean7(x)
        m == Len(trend_clean)
    IN  [last_trend7 |-> trend_clean[m],
         trend_slope_num |-> TrendSlopeNum(trend_clean),
         trend_len |-> m,
         seasonal_pattern |-> SeasonalPattern(x, trend_clean),
         K |-> CountsMultiple(x)]

\* variant of RawPrediction that reads the seasonal pattern at i + 1, the
\* step used in the trend term
RawPredictionSameStep(dec, i) ==
    Reduced(dec.last_trend7 * 21 * dec.trend_len * dec.K
            + (i + 1) * dec.trend_slope_num * 7 * dec.K
            + dec.seasonal_pattern[((i + 1) % 7) + 1] * 3 * dec.trend_len,
        49 * 3 * dec.trend_len * dec.K)

\* trend_component + seasonal_component for loop index i (0-based), before
\* the clamp: last_trend + (i + 1) * trend_slope + seasonal_pattern[i % 7]
RawPrediction(dec, i) ==
    Reduced(dec.last_trend7 * 21 * dec.trend_len * dec.K
            + (i + 1) * dec.trend_slope_num * 7 * dec.K
            + dec.seasonal_pattern[(i % 7) + 1] * 3 * dec.trend_len,
        49 * 3 * dec.trend_len * dec.K)

\* variant of ClampPrediction that appends the prediction as computed
ClampPredictionIdentity(prediction) == prediction

\* max(0, prediction): Python returns its first argument unless the second
\* is greater
ClampPrediction(prediction) == IF prediction.n > 0 THEN prediction ELSE RatInt(0)

perform_seasonal_decompose(df, forecast_days) ==
    IF Len(df) < MinDecomposeHistory
    THEN Raised(HTTPException(400,
             <<"Seasonal decomposition failed", "Insufficient data for seasonal decomposition">>),
                "insufficient_data")
    ELSE IF Len(df) - 2 * HalfWindow < MinTrendPoints
    THEN Raised(HTTPException(400,
             <<"Seasonal decomposition failed", "Insufficient trend data after removing NaN values">>),
                "insufficient_data")
    ELSE LET dec == Decomposition(Calls(df))
         IN  [ok |-> TRUE,
              predictions |->
                  [s \in 1 .. forecast_days |-> ClampPrediction(RawPrediction(dec, s - 1))],
              metrics |-> {}]


-----------------------------------------------------------------------------
(* POST /api/forecast *)

\* ForecastRequest
ForecastRequest(method, forecast_days, confidence_level) ==
    [method |-> method, forecast_days |-> forecast_days, confidence_level |-> confidence_level]

\* what a handler did: the HTTP status and detail (empty on success), the
\* body (<<>> when there is none), the documents it inserted into
\* db.forecasts, and the trace of the call: the strategies it invoked, the
\* phases it went through and the raise site that ended it
Outcome(status, detail, body, inserted, invoked, phases, cause) ==
    [status_code |-> status, detail |-> detail, body |-> body, inserted |-> inserted,
     invoked |-> invoked, phases |-> phases, cause |-> cause]

\* one strategy call
Invocation(strategy, df, forecast_days) ==
    [strategy |-> strategy, history_len |-> Len(df), forecast_days |-> forecast_days]

\* variant of ValidateHistory whose length check is off by one (<= 5)
ValidateHistoryLenient(df) ==
    IF df = <<>>
    THEN <<[cause |-> "no_data",
            error |-> HTTPException(400, <<"No historical data available for forecasting">>)]>>
    ELSE IF Len(df) < MinForecastHistory - 1
    THEN <<[cause |-> "min_history",
            error |-> HTTPException(400, <<"Minimum 7 data points required for forecasting">>)]>>
    ELSE <<>>

\* "if df.empty" / "if len(df) < 7": the HTTPException raised, or <<>>
ValidateHistory(df) ==
    IF df = <<>>
    THEN <<[cause |-> "no_data",
            error |-> HTTPException(400, <<"No historical data available for forecasting">>)]>>
    ELSE IF Len(df) < MinForecastHistory
    THEN <<[cause |-> "min_history",
            error |-> HTTPException(400, <<"Minimum 7 data points required for forecasting">>)]>>
    ELSE <<>>

\* df['date'].max()
LastDate(df) == CHOOSE d \in {df[t].date : t \in DOMAIN df} : \A t \in DOMAIN df : df[t].date <= d

\* variant of ForecastDates that adds i days instead of i + 1
ForecastDatesFromLastDay(last_date, forecast_days) ==
    [k \in 1 .. forecast_days |-> strftime(last_date + (k - 1))]

\* [(last_date + pd.Timedelta(days=i+1)).strftime('%Y-%m-%d') for i in range(forecast_days)]
ForecastDates(last_date, forecast_days) ==
    [k \in 1 .. forecast_days |-> strftime(last_date + (k - 1) + 1)]

\* variant of Dispatch whose else branch falls back to the regression
\* strategy (as the else branch inside perform_ml_forecast does for the model)
DispatchWithFallback(df, request, fit) ==
    IF request.method = "arima"
    THEN [invoked |-> <<Invocation("perform_arima_forecast", df, request.forecast_days)>>,
          result |-> perform_arima_forecast(df, request.forecast_days, request.confidence_level, fit),
          intervals |-> TRUE]
    ELSE IF request.method = "exponential_smoothing"
    THEN [invoked |-> <<Invocation("perform_exponential_smoothing", df, request.forecast_days)>>,
          result |-> perform_exponential_smoothing(df, request.forecast_days, request.confidence_level, fit),
          intervals |-> TRUE]
    ELSE IF request.method = "seasonal_decompose"
    THEN [invoked |-> <<Invocation("perform_seasonal_decompose", df, request.forecast_days)>>,
          result |-> perform_seasonal_decompose(df, request.forecast_days),
          intervals |-> FALSE]
    ELSE [invoked |-> <<Invocation("perform_ml_forecast", df, request.forecast_days)>>,
          result |-> perform_ml_forecast(df, request.forecast_days, request.method, fit),
          intervals |-> FALSE]

\* the if / elif chain on request.method: the strategy called and what it
\* returned; an unrecognised method raises without calling any
Dispatch(df, request, fit) ==
    IF request.method = "arima"
    THEN [invoked |-> <<Invocation("perform_arima_forecast", df, request.forecast_days)>>,
          result |-> perform_arima_forecast(df, request.forecast_days, request.confidence_level, fit),
          intervals |-> TRUE]
    ELSE IF request.method = "exponential_smoothing"
    THEN [invoked |-> <<Invocation("perform_exponential_smoothing", df, request.forecast_days)>>,
          result |-> perform_exponential_smoothing(df, request.forecast_days, request.confidence_level, fit),
          intervals |-> TRUE]
    ELSE IF request.method \in {"random_forest", "linear_regression"}
    THEN [invoked |-> <<Invocation("perform_ml_forecast", df, request.forecast_days)>>,
          result |-> perform_ml_forecast(df, request.forecast_days, request.method, fit),
          intervals |-> FALSE]
    ELSE IF request.method = "seasonal_decompose"
    THEN [invoked |-> <<Invocation("perform_seasonal_decompose", df, request.forecast_days)>>,
          result |-> perform_seasonal_decompose(df, request.forecast_days),
          intervals |-> FALSE]
    ELSE [invoked |-> <<>>,
          result |-> Raised(HTTPException(400, <<"Invalid forecasting method">>), "invalid_method"),
          intervals |-> FALSE]

\* [calculate_staffing_requirement(pred, target_service_level=0.8) for pred in predictions]
StaffingRecommendations(predictions) ==
    [i \in 1 .. Len(predictions) |->
        calculate_staffing_requirement(predictions[i], TargetServiceLevel)]

\* ForecastResult(...); an absent Optional field is <<>>; the id and the
\* timestamp are generated values no handler reads
ForecastResult(method, forecast_dates, dispatched) ==
    [method |-> method,
     forecast_dates |-> forecast_dates,
     predicted_calls |-> dispatched.result.predictions,
     confidence_intervals |->
         IF dispatched.intervals
         THEN <<[lower |-> dispatched.result.confidence_lower,
                 upper |-> dispatched.result.confidence_upper]>>
         ELSE <<>>,
     accuracy_metrics |-> dispatched.result.metrics,
     staffing_recommendations |-> StaffingRecommendations(dispatched.result.predictions)]

\* variant of InsertForecast that returns the result without saving it
InsertForecastSkipped(forecast_result) == <<>>

\* await db.forecasts.insert_one(prepared_forecast): the documents inserted
InsertForecast(forecast_result) == <<forecast_result>>

\* "except Exception as e": every exception of the try block, the
\* HTTPExceptions of the strategies and of the else branch included, is
\* raised again as HTTPException(400, "Forecasting failed: " + str(e))
ForecastingFailed(e, str_impl) ==
    HTTPException(400, <<"Forecasting failed">> \o StrOfHTTPException(e, str_impl))

generate_forecast(df, request, fit, str_impl) ==
    LET invalid == ValidateHistory(df)
    IN  IF invalid # <<>>
        THEN Outcome(invalid[1].error.status_code, invalid[1].error.detail, <<>>, <<>>,
                     <<>>, <<"validating">>, invalid[1].cause)
        ELSE LET forecast_dates == ForecastDates(LastDate(df), request.forecast_days)
                 dispatched == Dispatch(df, request, fit)
             IN  IF ~dispatched.result.ok
                 THEN LET error == ForecastingFailed(dispatched.result.error, str_impl)
                      IN  Outcome(error.status_code, error.detail, <<>>, <<>>,
                                  dispatched.invoked, <<"validating", "dispatching">>,
                                  dispatched.result.cause)
                 ELSE LET forecast_result ==
                              ForecastResult(request.method, forecast_dates, dispatched)
                      IN  Outcome(200, <<>>, <<forecast_result>>,
                                  InsertForecast(forecast_result), dispatched.invoked,
                                  <<"validating", "dispatching", "assembling", "persisted">>,
                                  "none")

-----------------------------------------------------------------------------
(* GET /api/analytics/accuracy *)

AccuracyMethods == <<"arima", "exponential_smoothing", "random_forest", "linear_regression">>

\* the strategy the loop body calls for a method, on the train split
RunOnTrain(method, train_data, fit) ==
    IF method = "arima" THEN perform_arima_forecast(train_data, TestWindow, Rat(95, 100), fit)
    ELSE IF method = "exponential_smoothing"
    THEN perform_exponential_smoothing(train_data, TestWindow, Rat(95, 100), fit)
    ELSE perform_ml_forecast(train_data, TestWindow, method, fit)

StrategyOf(method) ==
    IF method = "arima" THEN "perform_arima_forecast"
    ELSE IF method = "exponential_smoothing" THEN "perform_exponential_smoothing"
    ELSE "perform_ml_forecast"

RECURSIVE RatSum(_)
RatSum(s) == IF s = <<>> THEN RatInt(0) ELSE RatAdd(Head(s), RatSum(Tail(s)))

\* mean_absolute_error(actual, predictions)
mean_absolute_error(actual, predictions) ==
    LET total == RatSum([i \in 1 .. Len(actual) |->
                     Rat(Abs(actual[i] * predictions[i].d - predictions[i].n), predictions[i].d)])
    IN  Rat(total.n, total.d * Len(actual))

\* mean_squared_error(actual, predictions); the rmse is its square root
mean_squared_error(actual, predictions) ==
    LET total == RatSum([i \in 1 .. Len(actual) |->
                     Rat((actual[i] * predictions[i].d - predictions[i].n)
                             * (actual[i] * predictions[i].d - predictions[i].n),
                         predictions[i].d * predictions[i].d)])
    IN  Rat(total.n, total.d * Len(actual))

\* the entry of one method that did not raise
AccuracyEntry(test_data, predictions) ==
    LET actual == Take(Calls(test_data), Len(predictions))
        compared == Take(predictions, Len(actual))
    IN  [mae |-> mean_absolute_error(actual, compared),
         rmse_squared |-> mean_squared_error(actual, compared),
         predictions |-> compared,
         actual |-> actual]

\* variant of Kept for "except: break": the loop ends at the first method
\* that raises
KeptUntilFailure(results) ==
    {AccuracyMethods[i] : i \in {j \in DOMAIN AccuracyMethods :
                                    \A k \in 1 .. j : results[AccuracyMethods[k]].ok}}

\* "except: continue": the methods whose loop body ran to its end
Kept(results) == {m \in Range(AccuracyMethods) : results[m].ok}

\* variant of InsufficientForAccuracy whose length check is off by one
InsufficientForAccuracyOffByOne(df) == Len(df) < MinAccuracyHistory - 1

\* "if len(df) < 14"
InsufficientForAccuracy(df) == Len(df) < MinAccuracyHistory

\* variant of TrainData that keeps the held-out records in the train split
TrainDataWhole(df) == df

\* split_point = len(df) - 7; train_data = df.iloc[:split_point]
TrainData(df) == SubSeq(df, 1, Len(df) - TestWindow)

\* test_data = df.iloc[split_point:]
TestData(df) == SubSeq(df, Len(df) - TestWindow + 1, Len(df))

\* fits gives the library's behaviour for each method
get_accuracy_analysis(df, fits) ==
    IF InsufficientForAccuracy(df)
    THEN Outcome(200, <<>>, <<[message |-> "Insufficient data for accuracy analysis"]>>,
                 <<>>, <<>>, <<>>, "insufficient_data")
    ELSE LET train_data == TrainData(df)
             test_data == TestData(df)
             results == [m \in Range(AccuracyMethods) |-> RunOnTrain(m, train_data, fits[m])]
             kept == Kept(results)
         IN  Outcome(200, <<>>,
                     <<[m \in kept |-> AccuracyEntry(test_data, results[m].predictions)]>>,
                     <<>>,
                     [i \in 1 .. Len(AccuracyMethods) |->
                         Invocation(StrategyOf(AccuracyMethods[i]), train_data, TestWindow)],
                     <<>>, "none")


-----------------------------------------------------------------------------
(* The handlers as actions *)

Horizons == {1, MaxHorizon}

\* the five recognised tokens and one that is not
RequestMethods == Methods \cup {"bogus"}

Requests ==
    {ForecastRequest(m, h, Rat(95, 100)) : m \in RequestMethods, h \in Horizons}

NoRequest == ForecastRequest("none", 0, Rat(95, 100))

\* the response of the last handler, with the request it served (for the
\* accuracy analysis, which takes none: the behaviour of the library fits)
Response(op, request, outcome) ==
    [op |-> op, request |-> request,
     status_code |-> outcome.status_code, detail |-> outcome.detail,
     body |-> outcome.body, invoked |-> outcome.invoked,
     phases |-> outcome.phases, cause |-> outcome.cause]

Idle == Response("none", NoRequest, Outcome(0, <<>>, <<>>, <<>>, <<>>, <<>>, "none"))

Ack(op, count) ==
    Response(op, NoRequest, Outcome(200, <<>>, <<[count |-> count]>>, <<>>, <<>>, <<>>, "none"))

\* POST /api/call-data
CreateCallData ==
    \E input \in SingleRecords :
        /\ Cardinality({i \in DOMAIN call_data : call_data[i] \in SingleRecords}) < MaxSingles
        /\ call_data' = Append(call_data, input)
        /\ resp' = Ack("create_call_data", 1)
        /\ UNCHANGED forecasts

\* POST /api/call-data/bulk
CreateBulkCallData ==
    \E data_points \in {BigFile} :
        /\ Len(call_data) + Len(data_points) <= FetchLimit + MaxSingles
        /\ call_data' = call_data \o data_points
        /\ resp' = Ack("create_bulk_call_data", Len(data_points))
        /\ UNCHANGED forecasts

\* DELETE /api/call-data
DeleteAllCallData ==
    /\ call_data' = <<>>
    /\ resp' = Ack("delete_all_call_data", Len(call_data))
    /\ UNCHANGED forecasts

\* POST /api/forecast
GenerateForecast ==
    \E df \in {get_historical_data(call_data)}, request \in Requests :
        \E fit \in FitsFor(request.method), str_impl \in StrImpls :
            \E outcome \in {generate_forecast(df, request, fit, str_impl)} :
                /\ Len(forecasts) + Len(outcome.inserted) <= MaxForecasts
                /\ forecasts' = forecasts \o outcome.inserted
                /\ resp' = Response("generate_forecast", request, outcome)
                /\ UNCHANGED call_data

\* GET /api/analytics/accuracy
GetAccuracyAnalysis ==
    \E fits \in [Range(AccuracyMethods) -> PathFits \cup ModelFits \cup {FitFailure}] :
        /\ \A m \in Range(AccuracyMethods) : fits[m] \in FitsFor(m)
        /\ resp' = Response("get_accuracy_analysis", fits,
                            get_accuracy_analysis(get_historical_data(call_data), fits))
        /\ UNCHANGED <<call_data, forecasts>>

-----------------------------------------------------------------------------
(* Specifications *)

\* numbers of records around the thresholds of the handlers and strategies
ForecastLens == {0, 1, 6, 7, 11, 12, 13, 14, MaxHistory}

\* forecasting, from the histories of these lengths
Init ==
    /\ call_data \in Histories(ForecastLens)
    /\ forecasts = <<>>
    /\ resp = Idle

Next == GenerateForecast

Spec == Init /\ [][Next]_vars

\* accuracy analysis, from the histories of every length up to MaxHistory + 2
InitAccuracy ==
    /\ call_data \in Histories(0 .. MaxHistory + 2)
    /\ forecasts = <<>>
    /\ resp = Idle

NextAccuracy == GetAccuracyAnalysis

SpecAccuracy == InitAccuracy /\ [][NextAccuracy]_vars

\* ingestion, from the empty collection up to just beyond the fetch limit
InitStore ==
    /\ call_data = <<>>
    /\ forecasts = <<>>
    /\ resp = Idle

NextStore == CreateCallData \/ CreateBulkCallData \/ DeleteAllCallData

SpecStore == InitStore /\ [][NextStore]_vars


-----------------------------------------------------------------------------
(* Properties *)

\* the series the handlers work on in the current state
History == get_historical_data(call_data)

IsForecastResponse == resp.op = "generate_forecast"

\* the latest date of a non-empty series
LatestDay(df) ==
    CHOOSE d \in {df[t].date : t \in DOMAIN df} : ~ \E t \in DOMAIN df : df[t].date > d

\* a result has forecast_days predictions, staffing recommendations and
\* dates, the dates being the forecast_days days that follow the series
HasForecastShape(r, forecast_days, df) ==
    /\ Len(r.predicted_calls) = forecast_days
    /\ Len(r.staffing_recommendations) = forecast_days
    /\ Len(r.forecast_dates) = forecast_days
    /\ \A k \in 1 .. forecast_days : to_datetime(r.forecast_dates[k]) = LatestDay(df) + k
    /\ \A k \in 1 .. forecast_days - 1 : StrLess(r.forecast_dates[k], r.forecast_dates[k + 1])

\* the strategy's own minimum is not met: the regression strategies keep
\* n - 7 complete rows and need 5, the decomposition needs 14 records
BelowStrategyMinimum(method, n) ==
    \/ method \in {"random_forest", "linear_regression"} /\ n < 12
    \/ method = "seasonal_decompose" /\ n < 14

\* C1 (as amended): for a history of at least 7 records and a recognised
\* method, generate_forecast either fails with a 400 error or returns a
\* result with exactly forecast_days predicted values, staffing
\* recommendations and dates, the dates one calendar day apart and starting
\* the day after the latest date of the history; it always fails below the
\* strategy's own minimum (12 records for the regressions, 14 for the
\* decomposition), and otherwise fails only when the library fit raises
C1_ForecastShape ==
    (IsForecastResponse /\ Len(History) >= 7 /\ resp.request.method \in Methods) =>
        /\ resp.status_code \in {200, 400}
        /\ resp.status_code = 200 =>
               /\ Len(resp.body) = 1
               /\ HasForecastShape(resp.body[1], resp.request.forecast_days, History)
        /\ BelowStrategyMinimum(resp.request.method, Len(History)) => resp.status_code = 400
        /\ resp.status_code = 400 =>
               \/ BelowStrategyMinimum(resp.request.method, Len(History))
               \/ resp.cause = "fit_failure"

\* C1 witness: an 8-day (MaxHorizon) linear-regression forecast that runs
\* into the next year
C1_Witness ==
    /\ IsForecastResponse
    /\ resp.status_code = 200
    /\ resp.request.method = "linear_regression"
    /\ resp.request.forecast_days = MaxHorizon
    /\ resp.body[1].forecast_dates[MaxHorizon][1] = BaseYear + 1
    /\ HasForecastShape(resp.body[1], MaxHorizon, History)

\* C1 as stated: with at least 7 records every recognised method returns a
\* result of that shape (calls in which the library fit raised set aside)
C1_Original ==
    (IsForecastResponse /\ Len(History) >= 7 /\ resp.request.method \in Methods
        /\ resp.cause # "fit_failure") =>
        /\ resp.status_code = 200
        /\ Len(resp.body) = 1
        /\ HasForecastShape(resp.body[1], resp.request.forecast_days, History)

\* C2: with at least 7 records, an unrecognised method ends in a 400 error
\* raised by the invalid-method branch: no strategy is invoked, no result is
\* returned, and no result of an unrecognised method is ever stored
C2_InvalidMethod ==
    /\ (IsForecastResponse /\ Len(History) >= 7 /\ resp.request.method \notin Methods) =>
           /\ resp.status_code = 400
           /\ resp.cause = "invalid_method"
           /\ resp.invoked = <<>>
           /\ resp.body = <<>>
    /\ \A i \in DOMAIN forecasts : forecasts[i].method \in Methods

\* C2 witness: the request {method: "bogus"} answered on a 7-record history
C2_Witness ==
    /\ IsForecastResponse
    /\ Len(History) = 7
    /\ resp.request.method = "bogus"
    /\ resp.status_code = 400
    /\ resp.invoked = <<>>

\* C3: on an empty history the call fails with the "no data" error, on 1 to
\* 6 records with the minimum-history error; either way, for every method
\* token, the call ends in validation and invokes no strategy
C3_ValidationFirst ==
    (IsForecastResponse /\ Len(History) < 7) =>
        /\ resp.status_code = 400
        /\ resp.invoked = <<>>
        /\ resp.body = <<>>
        /\ resp.phases = <<"validating">>
        /\ Len(History) = 0 =>
               /\ resp.cause = "no_data"
               /\ resp.detail = <<"No historical data available for forecasting">>
        /\ Len(History) \in 1 .. 6 =>
               /\ resp.cause = "min_history"
               /\ resp.detail = <<"Minimum 7 data points required for forecasting">>

\* C3 witness: a decomposition request refused on a 6-record history
C3_Witness ==
    /\ IsForecastResponse
    /\ Len(History) = 6
    /\ resp.request.method = "seasonal_decompose"
    /\ resp.cause = "min_history"

\* what tells one error from another for a caller: the status code and the
\* leading phrase of the detail message
ErrorKind(r) == <<r.status_code, Head(r.detail)>>

CoreFailures == {"no_data", "min_history", "invalid_method", "fit_failure"}

\* C4 as stated: two calls that fail for different reasons (no data, too
\* short a history, unrecognised method, fit failure) end in errors of
\* different kinds
C4_DistinctKinds ==
    [][(/\ IsForecastResponse
        /\ resp'.op = "generate_forecast"
        /\ resp.cause \in CoreFailures
        /\ resp'.cause \in CoreFailures
        /\ resp.cause # resp'.cause) => ErrorKind(resp) # ErrorKind(resp')]_vars

ForecastPhases == <<"validating", "dispatching", "assembling", "persisted">>

\* C5: a call goes through the phases in order and stops at the first
\* failure, invoking at most one strategy; a successful call reaches
\* "persisted" and appends exactly the result it returns to the forecast
\* store; a failed call leaves the store as it was and returns no result
C5_Lifecycle ==
    [][resp'.op = "generate_forecast" =>
        /\ IsPrefix(resp'.phases, ForecastPhases)
        /\ Len(resp'.invoked) <= 1
        /\ resp'.status_code = 200 =>
               /\ resp'.phases = ForecastPhases
               /\ Len(resp'.body) = 1
               /\ forecasts' = Append(forecasts, resp'.body[1])
        /\ resp'.status_code # 200 =>
               /\ resp'.phases \in {<<"validating">>, <<"validating", "dispatching">>}
               /\ resp'.body = <<>>
               /\ forecasts' = forecasts]_vars

\* C5 witness: a successful call, its result the one stored
C5_Witness ==
    /\ IsForecastResponse
    /\ resp.status_code = 200
    /\ resp.phases = ForecastPhases
    /\ forecasts = <<resp.body[1]>>

IsAccuracyResponse == resp.op = "get_accuracy_analysis"

\* a method's strategy raises on the train split (the history less its last
\* 7 records): the library fit raises, or a regression is left with fewer
\* than 5 complete rows (a train split of fewer than 12 records)
FailsOnTrain(m, fits, n) ==
    \/ ~fits[m].ok
    \/ m \in {"random_forest", "linear_regression"} /\ n - 7 < 12

\* C6: with at least 14 records the accuracy analysis does not fail, and
\* the keys of its result are exactly the methods, of the four it tries,
\* whose strategy did not raise on the train split, whichever of them raise
C6_FailedMethodsOmitted ==
    (IsAccuracyResponse /\ Len(History) >= 14) =>
        /\ resp.status_code = 200
        /\ Len(resp.body) = 1
        /\ DOMAIN resp.body[1] =
               {m \in {"arima", "exponential_smoothing", "random_forest", "linear_regression"} :
                    ~FailsOnTrain(m, resp.request, Len(History))}

\* C6 witness: the first and the third method raise, the second and the
\* fourth are reported
C6_Witness ==
    /\ IsAccuracyResponse
    /\ Len(History) >= 14
    /\ ~resp.request["arima"].ok
    /\ ~resp.request["random_forest"].ok
    /\ resp.status_code = 200
    /\ DOMAIN resp.body[1] = {"exponential_smoothing", "linear_regression"}

\* C7: on fewer than 14 records, none included, the accuracy analysis
\* returns the insufficient-data message, no mapping of methods to metrics,
\* and invokes no strategy
C7_InsufficientData ==
    (IsAccuracyResponse /\ Len(History) < 14) =>
        /\ resp.body = <<[message |-> "Insufficient data for accuracy analysis"]>>
        /\ DOMAIN resp.body[1] \cap Range(AccuracyMethods) = {}
        /\ resp.invoked = <<>>

\* C7 witness: the analysis of a 13-record history in which no fit raises
C7_Witness ==
    /\ IsAccuracyResponse
    /\ Len(History) = 13
    /\ \A m \in Range(AccuracyMethods) : resp.request[m].ok
    /\ "message" \in DOMAIN resp.body[1]

\* the stored dates, as days
StoredDays(store) == [i \in DOMAIN store |-> to_datetime(store[i].date)]

\* series holds every stored record, in ascending order of date, the
\* latest stored date last
IsWholeSortedSeries(series, stored_days) ==
    /\ Len(series) = Len(stored_days)
    /\ \A d \in Range(stored_days) :
           Cardinality({t \in DOMAIN series : series[t].date = d})
               = Cardinality({i \in DOMAIN stored_days : stored_days[i] = d})
    /\ \A t \in 1 .. Len(series) - 1 : series[t].date <= series[t + 1].date
    /\ stored_days # <<>> =>
           \A d \in Range(stored_days) : d <= series[Len(series)].date

\* C8 as stated: the series historical access returns holds every stored
\* record, in ascending order of date, however many there are, the latest
\* stored date last
C8_AllRecordsSorted ==
    \A series \in {History}, stored_days \in {StoredDays(call_data)} :
        IsWholeSortedSeries(series, stored_days)

\* the forecast results there are: the stored ones and the one returned
Results ==
    Range(forecasts) \cup (IF IsForecastResponse THEN Range(resp.body) ELSE {})

\* the (predicted calls, staffing) pairs of the results
StaffedPredictions ==
    UNION {{<<r.predicted_calls[k], r.staffing_recommendations[k]>> :
                k \in DOMAIN r.predicted_calls} : r \in Results}

\* staff is max(1, trunc(5p/32)) for p = calls.n / calls.d, where
\* 5p/32 = (p / 8) * (1 / 0.8)
IsStaffingFor(staff, calls) ==
    IF 5 * calls.n < 64 * calls.d
    THEN staff = 1
    ELSE /\ staff * 32 * calls.d <= 5 * calls.n
         /\ 5 * calls.n < (staff + 1) * 32 * calls.d

\* C9: every staffing recommendation of a result is
\* max(1, trunc((predicted_calls / 8) * (1 / 0.8))) of its prediction: a
\* positive integer, also for 0 and for negative predictions, 1 for 0 and
\* 125 for 800, and no smaller for a larger prediction
C9_Staffing ==
    /\ \A r \in Results :
           Len(r.staffing_recommendations) = Len(r.predicted_calls)
    /\ \A a \in StaffedPredictions :
           /\ a[2] \in Nat \ {0}
           /\ IsStaffingFor(a[2], a[1])
           /\ a[1].n = 0 => a[2] = 1
           /\ a[1].n = 800 * a[1].d => a[2] = 125
           /\ \A b \in StaffedPredictions :
                  a[1].n * b[1].d <= b[1].n * a[1].d => a[2] <= b[2]

\* C9 witness: a result that predicts -800, 0 and 800 calls and recommends
\* 1, 1 and 125 agents for them
C9_Witness ==
    /\ IsForecastResponse
    /\ resp.status_code = 200
    /\ \E i, j, k \in DOMAIN resp.body[1].predicted_calls :
           /\ resp.body[1].predicted_calls[i] = RatInt(-800)
           /\ resp.body[1].staffing_recommendations[i] = 1
           /\ resp.body[1].predicted_calls[j] = RatInt(0)
           /\ resp.body[1].staffing_recommendations[j] = 1
           /\ resp.body[1].predicted_calls[k] = RatInt(800)
           /\ resp.body[1].staffing_recommendations[k] = 125

\* C10: every prediction the decomposition strategy returns is >= 0
C10_NonNegative ==
    \A r \in Results :
        r.method = "seasonal_decompose" =>
            \A k \in DOMAIN r.predicted_calls :
                /\ r.predicted_calls[k].d > 0
                /\ r.predicted_calls[k].n >= 0

\* C10 witness: a decomposition forecast on a falling history, for a day on
\* which trend plus seasonal component is negative, and 0 is returned
C10_Witness ==
    /\ IsForecastResponse
    /\ resp.status_code = 200
    /\ resp.request.method = "seasonal_decompose"
    /\ \E k \in DOMAIN resp.body[1].predicted_calls :
           /\ RawPrediction(Decomposition(Calls(History)), k - 1).n < 0
           /\ resp.body[1].predicted_calls[k] = RatInt(0)

\* a <= b for two rationals with positive denominators
AtMost(a, b) == a.n * b.d <= b.n * a.d

\* the intervals bracket the predictions of a result, index by index
Bracketed(r) ==
    /\ Len(r.confidence_intervals) = 1
    /\ Len(r.confidence_intervals[1].lower) = Len(r.predicted_calls)
    /\ Len(r.confidence_intervals[1].upper) = Len(r.predicted_calls)
    /\ \A i \in DOMAIN r.predicted_calls :
           /\ AtMost(r.confidence_intervals[1].lower[i], r.predicted_calls[i])
           /\ AtMost(r.predicted_calls[i], r.confidence_intervals[1].upper[i])

\* C11: a result of the autoregressive or the smoothing method carries a
\* lower and an upper sequence of forecast_days entries each, with
\* lower[i] <= predicted_calls[i] <= upper[i] at every index; a result of a
\* regression or of the decomposition method carries no intervals
C11_IntervalsBracket ==
    /\ \A r \in Results :
           /\ r.method \in {"arima", "exponential_smoothing"} => Bracketed(r)
           /\ r.method \in {"random_forest", "linear_regression", "seasonal_decompose"} =>
                  r.confidence_intervals = <<>>
    /\ (IsForecastResponse /\ resp.status_code = 200
            /\ resp.request.method \in {"arima", "exponential_smoothing"}) =>
           /\ Len(resp.body[1].confidence_intervals[1].lower) = resp.request.forecast_days
           /\ Len(resp.body[1].confidence_intervals[1].upper) = resp.request.forecast_days

\* C11 witness: a smoothing forecast over MaxHorizon days whose intervals
\* lie strictly around predictions below, at and above zero
C11_Witness ==
    /\ IsForecastResponse
    /\ resp.status_code = 200
    /\ resp.request.method = "exponential_smoothing"
    /\ resp.request.forecast_days = MaxHorizon
    /\ Len(resp.body[1].confidence_intervals[1].lower) = MaxHorizon
    /\ \A i \in 1 .. MaxHorizon :
           /\ ~AtMost(resp.body[1].predicted_calls[i], resp.body[1].confidence_intervals[1].lower[i])
           /\ ~AtMost(resp.body[1].confidence_intervals[1].upper[i], resp.body[1].predicted_calls[i])
    /\ \E i, j \in 1 .. MaxHorizon :
           resp.body[1].predicted_calls[i].n < 0 /\ resp.body[1].predicted_calls[j].n > 0

\* a series of consecutive days whose calls_volume grows by exactly one a day
IsUnitStepSeries(df) ==
    /\ df # <<>>
    /\ \A t \in 1 .. Len(df) - 1 :
           /\ df[t + 1].date = df[t].date + 1
           /\ df[t + 1].calls_volume = df[t].calls_volume + 1

IsRegressionForecast ==
    /\ IsForecastResponse
    /\ resp.status_code = 200
    /\ resp.request.method \in {"random_forest", "linear_regression"}

\* C12 as stated: on a series that grows by exactly one a day, with the
\* fitted model the exact rule calls = lag_1 + 1, the k-th prediction of a
\* regression forecast is the last historical calls_volume plus k
C12_Continuation ==
    (IsRegressionForecast /\ IsUnitStepSeries(History)) =>
        \A k \in DOMAIN resp.body[1].predicted_calls :
            resp.body[1].predicted_calls[k]
                = RatInt(History[Len(History)].calls_volume + k)

\* what the regression strategy computes for the forecast just answered
RegressionRun(fit) ==
    perform_ml_forecast(History, resp.request.forecast_days, resp.request.method, fit)

\* rows[k] is the feature row step k predicts from, preds[k] its prediction:
\* the lags of row k + 1 are the k latest predictions, newest first, then
\* the lags of the first row, and the other features are those of the
\* first row
IsLagShifted(rows, preds) ==
    \A k \in 1 .. Len(rows) - 1 :
        /\ rows[k + 1].lags[1] = preds[k]
        /\ Len(rows[k + 1].lags) = Len(rows[1].lags)
        /\ \A j \in 2 .. Len(rows[1].lags) :
               rows[k + 1].lags[j] =
                   IF j <= k THEN preds[k - j + 1] ELSE rows[1].lags[j - k]
        /\ rows[k + 1].day_of_week = rows[1].day_of_week
        /\ rows[k + 1].month = rows[1].month
        /\ rows[k + 1].day_of_month = rows[1].day_of_month
        /\ rows[k + 1].staffing_level = rows[1].staffing_level

\* the row of the last day of a history: its calendar features, its
\* staffing level and the call volumes of the days before it
IsLastTrainingRow(row, df) ==
    /\ row.day_of_week = (df[Len(df)].date - 1) % 7
    /\ row.month = strftime(df[Len(df)].date)[2]
    /\ row.day_of_month = strftime(df[Len(df)].date)[3]
    /\ row.staffing_level = df[Len(df)].staffing_level
    /\ \A j \in DOMAIN row.lags : row.lags[j] = df[Len(df) - j].calls_volume

\* C13: in a regression forecast, the row used for step k + 1 has
\* lag_1 = p_k, lag_j = p_(k-j+1) for 2 <= j <= k and lag_j = the last
\* training row's lag_(j-k) for j > k, and at every step the day of week,
\* month, day of month and staffing level of the last training row
C13_LagShift ==
    IsRegressionForecast =>
        \A fit \in ModelFits :
            \A run \in {RegressionRun(fit)} :
                /\ run.ok
                /\ run.predictions = resp.body[1].predicted_calls
                /\ Len(run.rows) = resp.request.forecast_days
                /\ IsLastTrainingRow(run.rows[1], History)
                /\ IsLagShifted(run.rows, [k \in DOMAIN run.predictions |-> run.predictions[k].n])

\* C13 witness: a regression forecast over MaxHorizon days on a falling
\* history: the row of the last step holds only predictions, the row of
\* the second step one prediction and then lags of the last training row
C13_Witness ==
    /\ IsRegressionForecast
    /\ resp.request.forecast_days = MaxHorizon
    /\ ~IsUnitStepSeries(History)
    /\ \E fit \in ModelFits :
           \E run \in {RegressionRun(fit)} :
               /\ Len(run.rows[1].lags) = 7
               /\ run.rows[2].lags[1] = run.predictions[1].n
               /\ run.rows[2].lags[2] = run.rows[1].lags[1]
               /\ run.rows[2].lags[2] # run.rows[2].lags[1]
               /\ \A j \in 1 .. 7 :
                      run.rows[MaxHorizon].lags[j] = run.predictions[MaxHorizon - j].n

IsDecompositionForecast ==
    /\ IsForecastResponse
    /\ resp.status_code = 200
    /\ resp.request.method = "seasonal_decompose"

\* the terms of the decomposition forecast of a history: the trend values
\* (times 7), the last 7 seasonal values (times 49 * multiple, index 0 .. 6
\* kept as 1 .. 7)
DecompositionTerms(df) ==
    LET trend7 == TrendClean7(Calls(df))
    IN  [trend7 |-> trend7,
         pattern |-> SeasonalPattern(Calls(df), trend7),
         multiple |-> CountsMultiple(Calls(df))]

\* last_trend_value + s * slope + seasonal_pattern[j] (j from 0), where
\* slope = (mean of last 3 trend values - mean of first 3) / trend_length,
\* as one fraction over 147 * trend_length * multiple
StepSum(terms, s, j) ==
    LET m == Len(terms.trend7)
        last3 == terms.trend7[m - 2] + terms.trend7[m - 1] + terms.trend7[m]
        first3 == terms.trend7[1] + terms.trend7[2] + terms.trend7[3]
    IN  Rat(terms.trend7[m] * 21 * m * terms.multiple
                + s * (last3 - first3) * 7 * terms.multiple
                + terms.pattern[j + 1] * 3 * m,
            147 * m * terms.multiple)

\* p = max(0, v)
IsClampOf(p, v) ==
    /\ p.d > 0
    /\ IF v.n > 0 THEN p.n * v.d = v.n * p.d ELSE p.n = 0

\* C14 (as amended): for each step s = 1 .. forecast_days the prediction
\* of the decomposition strategy is
\* max(0, last_trend_value + s * slope + seasonal_pattern[(s - 1) mod 7]),
\* seasonal_pattern being the last 7 seasonal values counted from 0
C14_StepFormula ==
    IsDecompositionForecast =>
        \A terms \in {DecompositionTerms(History)} :
            \A s \in 1 .. resp.request.forecast_days :
                IsClampOf(resp.body[1].predicted_calls[s], StepSum(terms, s, (s - 1) % 7))

\* C14 witness: a MaxHorizon-day decomposition forecast on a history with a
\* weekly peak: the week wraps around at step 8, and at some step with a
\* positive prediction the seasonal values at s - 1 and at s mod 7 differ
C14_Witness ==
    /\ IsDecompositionForecast
    /\ resp.request.forecast_days = MaxHorizon
    /\ \E terms \in {DecompositionTerms(History)} :
           /\ IsClampOf(resp.body[1].predicted_calls[8], StepSum(terms, 8, 0))
           /\ \E s \in 1 .. MaxHorizon :
                  /\ resp.body[1].predicted_calls[s].n > 0
                  /\ terms.pattern[((s - 1) % 7) + 1] # terms.pattern[(s % 7) + 1]

\* C14 as stated: the prediction of step s is
\* max(0, last_trend_value + s * slope + seasonal_pattern[s mod 7]), the
\* same s in the trend term and in the seasonal index
C14_Original ==
    IsDecompositionForecast =>
        \A terms \in {DecompositionTerms(History)} :
            \A s \in 1 .. resp.request.forecast_days :
                IsClampOf(resp.body[1].predicted_calls[s], StepSum(terms, s, s % 7))

IsRegressionResponse ==
    /\ IsForecastResponse
    /\ resp.request.method \in {"random_forest", "linear_regression"}
    /\ Len(History) >= 7

\* min(7, n - 1)
ExpectedLags(n) == IF n - 1 < 7 THEN n - 1 ELSE 7

\* frame is the history with its lag features: every row has lags calls_lag_1
\* .. calls_lag_count, calls_lag_j of row t being the calls_volume of row
\* t - j, or NaN when there is no such row
HasLagFeatures(frame, df, count) ==
    /\ Len(frame) = Len(df)
    /\ \A t \in DOMAIN frame :
           /\ DOMAIN frame[t].lags = 1 .. count
           /\ \A j \in 1 .. count :
                  IF t - j >= 1
                  THEN frame[t].lags[j] = df[t - j].calls_volume
                  ELSE frame[t].lags[j] = "NaN"

\* clean is frame without its first count rows (the rows that lack a lag),
\* in order
IsFrameWithoutIncompleteRows(clean, frame, count) ==
    /\ Len(clean) = Len(frame) - count
    /\ \A t \in DOMAIN clean : clean[t] = frame[t + count]

\* C15: on n records the regression strategies build min(7, n - 1) lag
\* features, drop the rows that lack a lag value, and fail for want of data
\* exactly when fewer than 5 complete rows remain; otherwise they fit on
\* the n - min(7, n - 1) remaining rows (and fail only if the library does)
C15_LagsAndCompleteRows ==
    IsRegressionResponse =>
        \A n \in {Len(History)}, clean \in {DropNa(History)},
           frame \in {[t \in 1 .. Len(History) |-> FeatureRow(History, t)]} :
            /\ HasLagFeatures(frame, History, ExpectedLags(n))
            /\ IsFrameWithoutIncompleteRows(clean, frame, ExpectedLags(n))
            /\ resp.cause = "insufficient_data" <=> n - ExpectedLags(n) < 5
            /\ n - ExpectedLags(n) < 5 =>
                   /\ resp.status_code = 400
                   /\ resp.body = <<>>
            /\ n - ExpectedLags(n) >= 5 =>
                   /\ resp.status_code = 200 \/ resp.cause = "fit_failure"
                   /\ \A fit \in ModelFits :
                          \A run \in {RegressionRun(fit)} :
                              /\ run.ok
                              /\ run.train_rows = n - ExpectedLags(n)

\* C15 witness: a regression forecast on 12 records, fitted on the 5 rows
\* that 7 lags leave
C15_Witness ==
    /\ IsRegressionResponse
    /\ Len(History) = 12
    /\ resp.status_code = 200
    /\ Len(DropNa(History)) = 5
    /\ Len(DropNa(History)[1].lags) = 7
    /\ \A fit \in ModelFits : RegressionRun(fit).train_rows = 5

\* the calls of the four strategies the analysis makes on a train split of
\* train_len records
InvokesTheFourOn(invoked, train_len) ==
    /\ [i \in DOMAIN invoked |-> invoked[i].strategy]
           = <<"perform_arima_forecast", "perform_exponential_smoothing",
               "perform_ml_forecast", "perform_ml_forecast">>
    /\ \A i \in DOMAIN invoked :
           /\ invoked[i].history_len = train_len
           /\ invoked[i].forecast_days = 7

\* C16: with n >= 14 records the accuracy analysis trains on the first
\* n - 7 records and tests on the last 7 (together the history, in order);
\* it runs the autoregressive, the smoothing and the two regression
\* strategies with horizon 7 and never the decomposition; every reported
\* method has as many compared predictions as actuals (7), the i-th actual
\* being the i-th held-out record and the i-th prediction the strategy's
\* i-th step from the train split
C16_TrainTestSplit ==
    (IsAccuracyResponse /\ Len(History) >= 14) =>
        \A n \in {Len(History)} :
            /\ TrainData(History) = [t \in 1 .. n - 7 |-> History[t]]
            /\ TestData(History) = [t \in 1 .. 7 |-> History[n - 7 + t]]
            /\ TrainData(History) \o TestData(History) = History
            /\ InvokesTheFourOn(resp.invoked, n - 7)
            /\ DOMAIN resp.body[1] \subseteq
                   {"arima", "exponential_smoothing", "random_forest", "linear_regression"}
            /\ \A m \in DOMAIN resp.body[1] :
                   /\ Len(resp.body[1][m].predictions) = 7
                   /\ Len(resp.body[1][m].actual) = 7
                   /\ \A i \in 1 .. 7 :
                          resp.body[1][m].actual[i] = History[n - 7 + i].calls_volume
                   /\ (m \in {"random_forest", "linear_regression"}
                           /\ resp.request[m].model = "lag1_plus_1") =>
                          \A i \in 1 .. 7 :
                              resp.body[1][m].predictions[i]
                                  = RatInt(History[n - 8].calls_volume + i)
                   /\ m \in {"arima", "exponential_smoothing"} =>
                          resp.body[1][m].predictions = ForecastPath(resp.request[m], 7)

\* C16 witness: the analysis of 19 records in which no fit raises: four
\* entries, from a train split of 12 records and the 7 records after it
C16_Witness ==
    /\ IsAccuracyResponse
    /\ Len(History) = 19
    /\ DOMAIN resp.body[1]
           = {"arima", "exponential_smoothing", "random_forest", "linear_regression"}
    /\ Len(resp.invoked) = 4
    /\ resp.invoked[3].history_len = 12
    /\ resp.body[1]["linear_regression"].actual[7] = History[19].calls_volume
    /\ resp.body[1]["linear_regression"].actual[1] = History[13].calls_volume

RegressionMethods == {"random_forest", "linear_regression"}

\* C17: the accuracy analysis of 14 to 18 records has no random_forest and
\* no linear_regression entry, whatever the records and whether or not the
\* library fits raise; a regression entry appears only from 19 records on
C17_NoRegressionBelow19 ==
    IsAccuracyResponse =>
        /\ Len(History) \in 14 .. 18 => DOMAIN resp.body[1] \cap RegressionMethods = {}
        /\ DOMAIN resp.body[1] \cap RegressionMethods # {} => Len(History) >= 19
        /\ \A m \in RegressionMethods :
               (Len(History) >= 19 /\ resp.request[m].ok) => m \in DOMAIN resp.body[1]

\* C17 witness: the analysis of 18 records in which no fit raises reports
\* the autoregressive and the smoothing method only
C17_Witness ==
    /\ IsAccuracyResponse
    /\ Len(History) = 18
    /\ \A m \in Range(AccuracyMethods) : resp.request[m].ok
    /\ DOMAIN resp.body[1] = {"arima", "exponential_smoothing"}

=============================================================================
